---- MODULE Spec2Model ----
(***************************************************************************)
(* State-machine model of ROOT::Detail::TDataFrameImpl (TDataFrame.cxx):   *)
(* booking of filters and actions, the event loop Run() in its sequential  *)
(* and implicit-MT variants, per-slot filter state and the cutflow report. *)
(*                                                                         *)
(* Slots are 0-based as in the source; a per-slot vector v is a sequence   *)
(* and v[slot] of the source is v[slot + 1] here.                          *)
(***************************************************************************)
EXTENDS Integers, Sequences, FiniteSets, TLC

\* ------------------------------------------------------------- bounds
MaxRows == 2
MaxPool == 2
MaxFilters == 2
MaxActions == 2
MaxPasses == 2
MaxAborts == 2
MaxArgs == 2
MaxList == 2
MaxVars == 2
MaxRange == 2
MaxStep == 2
MaxDivisor == 2
UGrid == 4
MaxWS == 2
MaxVal == 1

\* ------------------------------------------------------------- state
VARIABLES
    mode,                \* process-wide IMT state: 0 = disabled, n > 0 = enabled, pool size n
    nEntries,            \* number of entries of the TTree
    cuts,                \* cluster boundaries of the TTree (entries that start a cluster)
    fNSlots,             \* TDataFrameImpl::fNSlots
    fBookedFilters,      \* sequence of filter nodes [prev, pred, name]
    fBookedNamedFilters, \* sequence of indices into fBookedFilters
    fBookedBranches,     \* map from the name of a temporary branch to its expression
    fstate,              \* per filter: [lce, lres, acc, rej], each a per-slot vector
    fBookedActions,      \* sequence of action nodes [prev, h]
    partial,             \* per result handle: per-slot accumulators of its action
    fResProxyReadiness,  \* sequence of result handles whose readiness flag the root holds
    ready,               \* per result handle: the shared readiness flag
    value,               \* per result handle: the finalised result
    fHasRunAtLeastOnce,
    pc,                  \* "idle" | "running" | "crashed" | "raced"
    caller,              \* what triggered the running pass: [by, h]
    runPar,              \* the running pass took the IMT branch of Run
    nAlloc,              \* nSlots given to CreateSlots by the running/latest pass
    runPool,             \* number of pool threads serving the running pass
    tstate,              \* per task (cluster range): "todo" | "busy" | "done" | "failed"
    cur,                 \* per worker: [task, row, slot] (task = 0: not in the callable)
    slotMap,             \* thread id -> slot (-1: not in the map)
    globalSlotIndex,
    printed,             \* what the user operation that ended last gave back: the lines
                         \* of a report, the value of handle h, or an exception
    \* one call of PickBranchNames
    nArgs,               \* number of arguments of the callable
    bl,                  \* the branch list given with the callable
    defBl,               \* the default branch list of the TDataFrame
    picked,              \* what the call gave back: [thrown, useDefBl, names]
    \* one call of SequentialProposal::Propose(xPrime, x)
    fDivisor,            \* SequentialProposal::fDivisor, a double
    x,                   \* the current point: per variable [val, min, max]
    xPrime,              \* the proposed point: per variable [val, min, max]
    j,                   \* index of the variable Propose moves (0-based)
    val,                 \* the local double val of Propose
    ppc,                 \* position in Propose: "idle" | "call" | "loop" | "down" | "up" | "done"
    \* one ModelConfig, the workspaces and the message service
    fName,               \* ModelConfig::GetName()
    fRefWS,              \* ModelConfig::fRefWS: the referenced workspace, 0 for none
    fWSName,             \* ModelConfig::fWSName
    fSnapshotName,       \* ModelConfig::fSnapshotName
    workspaces,          \* per workspace: [vals, sets, snaps]
    globalKillBelow,     \* RooMsgService::instance().globalKillBelow()
    lastMerge,           \* the last call of RooWorkspace::merge: [into, from, level]
    modelSnapshot,       \* what the GetSnapshot that ended last gave back
    lastOp,              \* the operation that ended last: [op, ws], op is "SetWS" | "GetSnapshot" | "other"
    \* history variables
    ctorMode,            \* the IMT state when the TDataFrameImpl was constructed
    nPasses,             \* completed passes
    nAborts,             \* passes left by an exception
    rowBy,               \* per entry: slots that processed it in the running/latest pass
    rowLog               \* log of the entry processed last in the running pass

dataVars == <<nEntries, cuts, fNSlots>>
branchVars == <<fBookedBranches>>
pickVars == <<nArgs, bl, defBl, picked>>
propVars == <<fDivisor, x, xPrime, j, val, ppc>>
mcVars == <<fName, fRefWS, fWSName, fSnapshotName, workspaces, globalKillBelow, lastMerge,
           modelSnapshot, lastOp>>
filterVars == <<fBookedFilters, fBookedNamedFilters>>
handleVars == <<fBookedActions, fResProxyReadiness, ready, value>>
slotVars == <<fstate, partial>>
passVars == <<pc, caller, runPar, nAlloc, runPool, tstate, cur, slotMap, globalSlotIndex>>
histVars == <<ctorMode, nPasses, nAborts, rowBy, rowLog>>

vars == <<mode, dataVars, pickVars, propVars, mcVars, branchVars, filterVars, handleVars, slotVars, passVars, histVars,
          fHasRunAtLeastOnce, printed>>

\* ------------------------------------------------------------- helpers
\* The filters that get booked: a callable and a name ("": unnamed)
FilterShapes == {[pred |-> "gt1", name |-> "gt1"], [pred |-> "lt3", name |-> "lt3"],
                 [pred |-> "gt1", name |-> ""]}
\* The filters that get booked when one of the callables fails
FailShapes == {[pred |-> "gt1", name |-> "gt1"], [pred |-> "thr", name |-> ""]}
Threads == 1..MaxPool
Workers == 0..MaxPool     \* 0 is the thread that called Run

RECURSIVE SumSeq(_)
SumSeq(s) == IF s = <<>> THEN 0 ELSE Head(s) + SumSeq(Tail(s))

\* std::vector::resize(n, fill)
Resize(s, n, fill) == [i \in 1..n |-> IF i <= Len(s) THEN s[i] ELSE fill]

\* The dataset: one persistent column A holding 1, 2, 3, ... (entry e holds e + 1)
ColA(entry) == entry + 1

\* The user callables of the filters: "thr" accepts an entry with A = 1 and
\* throws on any other
Pred(p, entry) == IF p = "gt1" THEN ColA(entry) > 1
                  ELSE IF p = "lt3" THEN ColA(entry) < 3 ELSE TRUE
Throws(p, entry) == p = "thr" /\ ColA(entry) > 1

\* The tasks TTreeProcessorMT hands out: one contiguous range per cluster
Starts == IF nEntries = 0 THEN {} ELSE {0} \cup cuts
ClusterEnd(lo) == IF \E c \in Starts : c > lo
                  THEN (CHOOSE c \in Starts : c > lo /\ \A d \in Starts : d > lo => c <= d) - 1
                  ELSE nEntries - 1
RECURSIVE ClustersFrom(_)
ClustersFrom(lo) == IF lo >= nEntries THEN <<>>
                    ELSE <<[lo |-> lo, hi |-> ClusterEnd(lo)]>> \o ClustersFrom(ClusterEnd(lo) + 1)
Clusters == ClustersFrom(0)
\* The single range of the TTreeReader of the sequential branch
WholeTree == IF nEntries = 0 THEN <<>> ELSE <<[lo |-> 0, hi |-> nEntries - 1]>>
\* A Run that skips the event loop on a root that has run
TasksOfFirstRunOnly(par) ==
    IF fHasRunAtLeastOnce THEN <<>> ELSE IF par THEN Clusters ELSE WholeTree
\* A pool that hands every cluster out twice
TasksOfTwice(par) == IF par THEN Clusters \o Clusters ELSE WholeTree
\* The ranges the event loop of Run is run on
TasksOf(par) == IF par THEN Clusters ELSE WholeTree
Tasks == TasksOf(runPar)

\* ------------------------------------------------------------- ROOT::Internal
\* IMT disabled (0), or enabled with a pool of 2..MaxPool threads
PoolModes == {0} \cup 2..MaxPool

GetNSlots(m) == IF m > 0 THEN m ELSE 1

IsImplicitMTEnabled == mode > 0

\* TDataFrameImpl::TDataFrameImpl: fNSlots(ROOT::Internal::GetNSlots())
CtorNSlots == GetNSlots(mode)

\* ------------------------------------------------------------- construction
NoOutput == [by |-> "none", h |-> 0, lines |-> <<>>]
NoCur == [task |-> 0, row |-> 0, slot |-> 0]
NoLog == [entry |-> -1, slot |-> -1, ev |-> <<>>, ret |-> <<>>, runs |-> <<>>, upd |-> {},
          thrown |-> FALSE]

\* no call of PickBranchNames has returned
NoPick == [thrown |-> FALSE, useDefBl |-> FALSE, names |-> <<"-">>]

\* ------------------------------------------------------------- SequentialProposal
\* A double is [k, v]: a finite number v, +infinity, -infinity or not-a-number
Fin(n) == [k |-> "fin", v |-> n]
PInf == [k |-> "pinf", v |-> 0]
NInf == [k |-> "ninf", v |-> 0]
NaN == [k |-> "nan", v |-> 0]

\* 1./divisor, kept as the denominator; 1./0 is +infinity
Reciprocal(divisor) == IF divisor = 0 THEN PInf ELSE Fin(divisor)

\* n * f for a finite n and an f that is 1/f.v or +infinity
Times(n, f) ==
    IF f.k = "pinf"
    THEN IF n > 0 THEN PInf ELSE IF n < 0 THEN NInf ELSE NaN
    ELSE Fin(n \div f.v)

\* a + n, a > n and a < n for a double a and a finite n
Plus(a, n) == IF a.k = "fin" THEN Fin(a.v + n) ELSE a
Gt(a, n) == a.k = "pinf" \/ (a.k = "fin" /\ a.v > n)
Lt(a, n) == a.k = "ninf" \/ (a.k = "fin" /\ a.v < n)

\* The RooRealVars of a point: min <= val <= max
RealVars ==
    {[val |-> Fin(v), min |-> lo, max |-> hi] :
        v \in 0..MaxRange, lo \in 0..MaxRange, hi \in 0..MaxRange}

ProperVars == {r \in RealVars : r.min <= r.val.v /\ r.val.v <= r.max}

Points == UNION {[1..n -> ProperVars] : n \in 0..MaxVars}

\* The draws of RooRandom::gaussian()
Gauss == (0 - MaxStep)..MaxStep

\* No call of Propose is modelled
NoPropose ==
    /\ fDivisor = Fin(1)
    /\ x = <<>>
    /\ xPrime = <<>>
    /\ j = 0
    /\ val = Fin(0)
    /\ ppc = "idle"

\* ------------------------------------------------------------- ModelConfig
\* The names a ModelConfig and a RooArgSet may carry, and the variables of a workspace
ConfigNames == {"", "mc"}
SetNames == {"poi"}
VarNames == {"mu", "sigma"}

\* The levels of RooMsgService::globalKillBelow that occur
MsgLevels == {"INFO", "ERROR"}
ERROR == "ERROR"

\* fSnapshotName as SetSnapshot composes it from GetName() and set.GetName()
SnapshotNameOf(name, setName) ==
    LET s1 == name
        s2 == IF Len(s1) > 0 THEN s1 \o "_" ELSE s1
        s3 == s2 \o setName
        s4 == IF Len(s3) > 0 THEN s3 \o "_" ELSE s3
    IN  s4 \o "snapshot"

SnapshotNames == {SnapshotNameOf(c, s) : c \in ConfigNames, s \in SetNames}

\* RooWorkspace::GetName() of workspace w
WsName(w) == IF w % 2 = 1 THEN "w" ELSE "combined"

\* A RooWorkspace right after its construction: every variable at 0, no named
\* set, no snapshot
NoSet == [def |-> FALSE, vars |-> {}]
NoSnap == [def |-> FALSE, vars |-> {}, vals |-> [v \in VarNames |-> 0]]
EmptyWs ==
    [vals |-> [v \in VarNames |-> 0],
     sets |-> [n \in SnapshotNames |-> NoSet],
     snaps |-> [n \in SnapshotNames |-> NoSnap]]

\* The null RooArgSet pointer and the last merge call when there was none
NullSet == [null |-> TRUE, vars |-> {}, vals |-> [v \in VarNames |-> 0]]
NoMerge == [into |-> 0, from |-> 0, level |-> "INFO"]
NoOp == [op |-> "none", ws |-> 0]

\* No ModelConfig is modelled
NoConfig ==
    /\ fName = ""
    /\ fRefWS = 0
    /\ fWSName = ""
    /\ fSnapshotName = ""
    /\ workspaces = <<>>
    /\ globalKillBelow = "INFO"
    /\ lastMerge = NoMerge
    /\ modelSnapshot = NullSet
    /\ lastOp = NoOp

\* The TDataFrameImpl after its construction
InitRoot ==
    /\ mode \in PoolModes
    /\ nEntries \in 0..MaxRows
    /\ cuts \in SUBSET (1..(nEntries - 1))
    /\ ctorMode = mode
    /\ fNSlots = CtorNSlots
    /\ fBookedFilters = <<>>
    /\ fBookedNamedFilters = <<>>
    /\ fBookedBranches = <<>>
    /\ fstate = <<>>
    /\ fBookedActions = <<>>
    /\ partial = <<>>
    /\ fResProxyReadiness = <<>>
    /\ ready = <<>>
    /\ value = <<>>
    /\ fHasRunAtLeastOnce = FALSE
    /\ pc = "idle"
    /\ caller = [by |-> "none", h |-> 0]
    /\ runPar = FALSE
    /\ nAlloc = 0
    /\ runPool = 0
    /\ tstate = <<>>
    /\ cur = [w \in Workers |-> NoCur]
    /\ slotMap = [t \in Threads |-> -1]
    /\ globalSlotIndex = 0
    /\ printed = NoOutput
    /\ nPasses = 0
    /\ nAborts = 0
    /\ rowBy = [e \in 0..(nEntries - 1) |-> <<>>]
    /\ rowLog = NoLog

Init ==
    /\ InitRoot
    /\ nArgs = 0
    /\ bl = <<>>
    /\ defBl = <<>>
    /\ picked = NoPick
    /\ NoPropose
    /\ NoConfig

\* ------------------------------------------------------------- branch lists
BranchIds == {"b1", "b2"}

RECURSIVE SeqsOfLen(_, _)
SeqsOfLen(S, n) ==
    IF n = 0 THEN {<<>>}
    ELSE {Append(q, b) : q \in SeqsOfLen(S, n - 1), b \in S}

\* BranchNames: the lists of branch names of at most MaxList entries
BranchNames == UNION {SeqsOfLen(BranchIds, n) : n \in 0..MaxList}

\* A PickBranchNames that falls back on the default list whenever the given
\* list does not fit and the default list does
PickBranchNamesAnyFallback(n, b, d) ==
    IF n # Len(b)
    THEN IF n = Len(d)
         THEN [thrown |-> FALSE, useDefBl |-> TRUE, names |-> d]
         ELSE [thrown |-> TRUE, useDefBl |-> FALSE, names |-> <<>>]
    ELSE [thrown |-> FALSE, useDefBl |-> FALSE, names |-> b]

\* ROOT::Internal::PickBranchNames(nArgs, bl, defBl)
PickBranchNames(n, b, d) ==
    IF n # Len(b)
    THEN IF Len(b) = 0 /\ n = Len(d)
         THEN [thrown |-> FALSE, useDefBl |-> TRUE, names |-> d]
         ELSE [thrown |-> TRUE, useDefBl |-> FALSE, names |-> <<>>]
    ELSE [thrown |-> FALSE, useDefBl |-> FALSE, names |-> b]

\* A callable of nArgs arguments is booked with the list bl on a TDataFrame whose
\* default list is defBl
InitPick ==
    /\ InitRoot
    /\ mode = 0
    /\ nEntries = 0
    /\ nArgs \in 0..MaxArgs
    /\ bl \in BranchNames
    /\ defBl \in BranchNames
    /\ picked = NoPick
    /\ NoPropose
    /\ NoConfig

Pick ==
    /\ picked = NoPick
    /\ picked' = PickBranchNames(nArgs, bl, defBl)
    /\ UNCHANGED <<mode, dataVars, nArgs, bl, defBl, propVars, mcVars, branchVars, filterVars, handleVars,
                   slotVars, passVars, histVars, fHasRunAtLeastOnce, printed>>

\* ------------------------------------------------------------- SequentialProposal::Propose
\* A SequentialProposal(divisor) is asked for a point xPrime next to x; the
\* two sets hold the same variables with the same ranges
InitPropose ==
    /\ InitRoot
    /\ mode = 0
    /\ nEntries = 0
    /\ nArgs = 0
    /\ bl = <<>>
    /\ defBl = <<>>
    /\ picked = NoPick
    /\ fDivisor \in {Reciprocal(d) : d \in 0..MaxDivisor}
    /\ x \in Points
    /\ xPrime \in {p \in Points :
            /\ Len(p) = Len(x)
            /\ \A i \in 1..Len(x) : p[i].min = x[i].min /\ p[i].max = x[i].max}
    /\ j = 0
    /\ val = Fin(0)
    /\ ppc = "call"
    /\ NoConfig

\* RooStats::SetParameters(&x, &xPrime): *paramsToChange = *desiredVals
SetParameters(desiredVals, paramsToChange) ==
    [i \in 1..Len(paramsToChange) |-> [paramsToChange[i] EXCEPT !.val = desiredVals[i].val]]

\* floor(RooRandom::uniform() * n) for the draw u / UGrid
FloorOfDraw(u, n) == (u * n) \div UGrid

\* Propose up to the loop: the copy and the draw of j
ProposeEnter(u) ==
    /\ ppc = "call"
    /\ xPrime' = SetParameters(x, xPrime)
    /\ j' = FloorOfDraw(u, Len(xPrime))
    /\ ppc' = "loop"
    /\ UNCHANGED <<fDivisor, x, val>>

\* The loop reaches i == j: val = var->getVal() + gaussian * len * fDivisor
ProposeMove(g) ==
    /\ ppc = "loop"
    /\ j < Len(xPrime)
    /\ val' = LET var == xPrime[j + 1]
                  step == Times(g * (var.max - var.min), fDivisor)
              IN  IF step.k = "fin" THEN Plus(var.val, step.v) ELSE step
    /\ ppc' = "down"
    /\ UNCHANGED <<fDivisor, x, xPrime, j>>

\* The loop ends without i == j: the sets are empty
ProposeNone ==
    /\ ppc = "loop"
    /\ j >= Len(xPrime)
    /\ ppc' = "done"
    /\ UNCHANGED <<fDivisor, x, xPrime, j, val>>

\* while (val > max) val -= len: one iteration
WrapDown ==
    /\ ppc = "down"
    /\ Gt(val, xPrime[j + 1].max)
    /\ val' = Plus(val, 0 - (xPrime[j + 1].max - xPrime[j + 1].min))
    /\ UNCHANGED <<fDivisor, x, xPrime, j, ppc>>

WrapDownEnd ==
    /\ ppc = "down"
    /\ ~Gt(val, xPrime[j + 1].max)
    /\ ppc' = "up"
    /\ UNCHANGED <<fDivisor, x, xPrime, j, val>>

\* while (val < min) val += len: one iteration
WrapUp ==
    /\ ppc = "up"
    /\ Lt(val, xPrime[j + 1].min)
    /\ val' = Plus(val, xPrime[j + 1].max - xPrime[j + 1].min)
    /\ UNCHANGED <<fDivisor, x, xPrime, j, ppc>>

\* var->setVal(val) after the second loop
SetVal ==
    /\ ppc = "up"
    /\ ~Lt(val, xPrime[j + 1].min)
    /\ xPrime' = [xPrime EXCEPT ![j + 1].val = val]
    /\ ppc' = "done"
    /\ UNCHANGED <<fDivisor, x, j, val>>

Propose ==
    /\ \/ \E u \in 1..(UGrid - 1) : ProposeEnter(u)
       \/ \E g \in Gauss : ProposeMove(g)
       \/ ProposeNone
       \/ WrapDown
       \/ WrapDownEnd
       \/ WrapUp
       \/ SetVal
    /\ UNCHANGED <<mode, dataVars, pickVars, mcVars, branchVars, filterVars, handleVars, slotVars,
                   passVars, histVars, fHasRunAtLeastOnce, printed>>

\* ------------------------------------------------------------- ModelConfig operations
\* A ModelConfig after its construction next to MaxWS fresh workspaces
InitConfig ==
    /\ InitRoot
    /\ mode = 0
    /\ nEntries = 0
    /\ nArgs = 0
    /\ bl = <<>>
    /\ defBl = <<>>
    /\ picked = NoPick
    /\ NoPropose
    /\ fName \in ConfigNames
    /\ fRefWS = 0
    /\ fWSName = ""
    /\ fSnapshotName = ""
    /\ workspaces = [w \in 1..MaxWS |-> EmptyWs]
    /\ globalKillBelow \in MsgLevels
    /\ lastMerge = NoMerge
    /\ modelSnapshot = NullSet
    /\ lastOp = NoOp

\* ModelConfig::GetWS(): the referenced workspace, 0 for NULL
GetWS == fRefWS

\* A SetWS that binds the given workspace on every call
SetWSBindsAlways(ref) == TRUE

\* The test of SetWS: !fRefWS.GetObject()
SetWSBinds(ref) == ref = 0

\* ModelConfig::SetWS(ws)
SetWS(w) ==
    /\ IF SetWSBinds(fRefWS)
       THEN /\ fRefWS' = w
            /\ fWSName' = WsName(w)
            /\ UNCHANGED <<globalKillBelow, lastMerge>>
       ELSE LET level == globalKillBelow
                during == ERROR
            IN  /\ lastMerge' = [into |-> GetWS, from |-> w, level |-> during]
                /\ globalKillBelow' = level
                /\ UNCHANGED <<fRefWS, fWSName>>
    /\ lastOp' = [op |-> "SetWS", ws |-> w]
    /\ modelSnapshot' = NullSet
    /\ UNCHANGED <<fName, fSnapshotName, workspaces>>

\* RooWorkspace::saveSnapshot(name, set, true): the snapshot holds the
\* variables of the set with the values the set carries
SaveSnapshot(W, name, S, p) ==
    [W EXCEPT !.snaps[name] =
        [def |-> TRUE, vars |-> S, vals |-> [v \in VarNames |-> IF v \in S THEN p[v] ELSE 0]]]

\* ModelConfig::DefineSetInWS(name, set)
DefineSetInWS(W, name, S) == [W EXCEPT !.sets[name] = [def |-> TRUE, vars |-> S]]

\* ModelConfig::SetSnapshot(set): the set is named setName and holds the
\* variables S with the values p
SetSnapshot(setName, S, p) ==
    /\ IF GetWS = 0
       THEN UNCHANGED <<fSnapshotName, workspaces>>
       ELSE LET name == SnapshotNameOf(fName, setName)
            IN  /\ fSnapshotName' = name
                /\ workspaces' = [workspaces EXCEPT
                       ![GetWS] = DefineSetInWS(SaveSnapshot(@, name, S, p), name, S)]
    /\ lastOp' = [op |-> "other", ws |-> 0]
    /\ modelSnapshot' = NullSet
    /\ UNCHANGED <<fName, fRefWS, fWSName, globalKillBelow, lastMerge>>

\* RooWorkspace::loadSnapshot(name): [ok, vals], the variables of the
\* snapshot take its values
LoadSnapshotIn(W, name) ==
    IF W.snaps[name].def
    THEN [ok |-> TRUE,
          vals |-> [v \in VarNames |->
                      IF v \in W.snaps[name].vars THEN W.snaps[name].vals[v] ELSE W.vals[v]]]
    ELSE [ok |-> FALSE, vals |-> W.vals]

\* A restore that assigns nothing
AssignFastNothing(vals, S, other) == vals

\* snapshotVars.assignFast(tempSnapshot): the variables of S take the values in other
AssignFast(vals, S, other) == [v \in VarNames |-> IF v \in S THEN other[v] ELSE vals[v]]

\* RooArgSet::snapshot(): a copy of the variables of S with the values they have
SnapshotOf(vals, S) ==
    [null |-> FALSE, vars |-> S, vals |-> [v \in VarNames |-> IF v \in S THEN vals[v] ELSE 0]]

\* ModelConfig::GetSnapshot(): [ret, ws], the returned set and the workspaces afterwards
GetSnapshotOutcome ==
    IF GetWS = 0 THEN [ret |-> NullSet, ws |-> workspaces]
    ELSE IF Len(fSnapshotName) = 0 THEN [ret |-> NullSet, ws |-> workspaces]
    ELSE IF ~workspaces[GetWS].sets[fSnapshotName].def THEN [ret |-> NullSet, ws |-> workspaces]
    ELSE LET W == workspaces[GetWS]
             snapshotVars == W.sets[fSnapshotName].vars
         IN  IF Cardinality(snapshotVars) = 0 THEN [ret |-> NullSet, ws |-> workspaces]
             ELSE LET tempSnapshot == SnapshotOf(W.vals, snapshotVars)
                      loaded == LoadSnapshotIn(W, fSnapshotName)
                  IN  IF ~loaded.ok THEN [ret |-> NullSet, ws |-> workspaces]
                      ELSE [ret |-> SnapshotOf(loaded.vals, snapshotVars),
                            ws |-> [workspaces EXCEPT ![GetWS].vals =
                                       AssignFast(loaded.vals, snapshotVars, tempSnapshot.vals)]]

GetSnapshot ==
    /\ modelSnapshot' = GetSnapshotOutcome.ret
    /\ workspaces' = GetSnapshotOutcome.ws
    /\ lastOp' = [op |-> "GetSnapshot", ws |-> 0]
    /\ UNCHANGED <<fName, fRefWS, fWSName, fSnapshotName, globalKillBelow, lastMerge>>

\* ModelConfig::LoadSnapshot()
LoadSnapshot ==
    /\ GetWS # 0
    /\ fSnapshotName # ""
    /\ workspaces' = [workspaces EXCEPT ![GetWS].vals = LoadSnapshotIn(workspaces[GetWS], fSnapshotName).vals]
    /\ lastOp' = [op |-> "other", ws |-> 0]
    /\ modelSnapshot' = NullSet
    /\ UNCHANGED <<fName, fRefWS, fWSName, fSnapshotName, globalKillBelow, lastMerge>>

\* The user gives a variable of the referenced workspace another value
SetValInWS(v, n) ==
    /\ GetWS # 0
    /\ workspaces' = [workspaces EXCEPT ![GetWS].vals[v] = n]
    /\ lastOp' = [op |-> "other", ws |-> 0]
    /\ modelSnapshot' = NullSet
    /\ UNCHANGED <<fName, fRefWS, fWSName, fSnapshotName, globalKillBelow, lastMerge>>

\* The user removes the named set of the snapshot from the referenced workspace
RemoveSet ==
    /\ GetWS # 0
    /\ fSnapshotName # ""
    /\ workspaces' = [workspaces EXCEPT ![GetWS].sets[fSnapshotName] = NoSet]
    /\ lastOp' = [op |-> "other", ws |-> 0]
    /\ modelSnapshot' = NullSet
    /\ UNCHANGED <<fName, fRefWS, fWSName, fSnapshotName, globalKillBelow, lastMerge>>

\* The user sets the global kill level of the message service
SetGlobalKillBelow(level) ==
    /\ globalKillBelow' = level
    /\ lastOp' = [op |-> "other", ws |-> 0]
    /\ modelSnapshot' = NullSet
    /\ UNCHANGED <<fName, fRefWS, fWSName, fSnapshotName, workspaces, lastMerge>>

Config ==
    /\ \/ \E w \in 1..MaxWS : SetWS(w)
       \/ \E setName \in SetNames, S \in SUBSET VarNames :
             \E p \in [S -> 0..MaxVal] : SetSnapshot(setName, S, p)
       \/ GetSnapshot
       \/ LoadSnapshot
       \/ \E v \in VarNames, n \in 0..MaxVal : SetValInWS(v, n)
       \/ RemoveSet
       \/ \E level \in MsgLevels : SetGlobalKillBelow(level)
    /\ UNCHANGED <<mode, dataVars, pickVars, propVars, branchVars, filterVars, handleVars,
                   slotVars, passVars, histVars, fHasRunAtLeastOnce, printed>>

\* ------------------------------------------------------------- environment
EnableImplicitMT(n) ==
    /\ mode = 0
    /\ mode' = n
    /\ UNCHANGED <<dataVars, pickVars, propVars, mcVars, branchVars, filterVars, handleVars, slotVars, passVars, histVars,
                   fHasRunAtLeastOnce, printed>>

DisableImplicitMT ==
    /\ mode > 0
    /\ mode' = 0
    /\ UNCHANGED <<dataVars, pickVars, propVars, mcVars, branchVars, filterVars, handleVars, slotVars, passVars, histVars,
                   fHasRunAtLeastOnce, printed>>

\* ------------------------------------------------------------- booking
NewFilterState == [lce |-> <<>>, lres |-> <<>>, acc |-> <<>>, rej |-> <<>>]

\* TDataFrameImpl::Book(FilterBasePtr_t)
BookFilter(prev, pred, name) ==
    /\ pc = "idle"
    /\ nPasses < MaxPasses
    /\ Len(fBookedFilters) < MaxFilters
    /\ prev \in 0..Len(fBookedFilters)
    /\ fBookedFilters' = Append(fBookedFilters, [prev |-> prev, pred |-> pred, name |-> name])
    /\ fBookedNamedFilters' = IF name # ""
                              THEN Append(fBookedNamedFilters, Len(fBookedFilters) + 1)
                              ELSE fBookedNamedFilters
    /\ fstate' = Append(fstate, NewFilterState)
    /\ printed' = NoOutput
    /\ UNCHANGED <<mode, dataVars, pickVars, propVars, mcVars, branchVars, handleVars, partial, passVars, histVars,
                   fHasRunAtLeastOnce>>

\* A Book that refuses an action once the root has run
BookActionFrozen(prev) ==
    /\ pc = "idle"
    /\ nPasses < MaxPasses
    /\ Len(ready) < MaxActions
    /\ prev \in 0..Len(fBookedFilters)
    /\ IF fHasRunAtLeastOnce
       THEN /\ printed' = [by |-> "root-frozen", h |-> 0, lines |-> <<>>]
            /\ UNCHANGED <<handleVars, partial>>
       ELSE /\ fBookedActions' = Append(fBookedActions, [prev |-> prev, h |-> Len(ready) + 1])
            /\ fResProxyReadiness' = Append(fResProxyReadiness, Len(ready) + 1)
            /\ ready' = Append(ready, FALSE)
            /\ value' = Append(value, <<>>)
            /\ partial' = Append(partial, <<>>)
            /\ printed' = NoOutput
    /\ UNCHANGED <<mode, dataVars, pickVars, propVars, mcVars, branchVars, filterVars, fstate, passVars, histVars,
                   fHasRunAtLeastOnce>>

\* TDataFrameImpl::Book(ActionBasePtr_t), with the result handle the interface makes
BookAction(prev) ==
    /\ pc = "idle"
    /\ nPasses < MaxPasses
    /\ Len(ready) < MaxActions
    /\ prev \in 0..Len(fBookedFilters)
    /\ LET h == Len(ready) + 1 IN
        /\ fBookedActions' = Append(fBookedActions, [prev |-> prev, h |-> h])
        /\ fResProxyReadiness' = Append(fResProxyReadiness, h)
    /\ ready' = Append(ready, FALSE)
    /\ value' = Append(value, <<>>)
    /\ partial' = Append(partial, <<>>)
    /\ printed' = NoOutput
    /\ UNCHANGED <<mode, dataVars, pickVars, propVars, mcVars, branchVars, filterVars, fstate, passVars, histVars,
                   fHasRunAtLeastOnce>>

\* The branches of the TTree, the names AddCol is called with, and the
\* expressions it is given
TreeBranches == {"A"}
TmpNames == {"A", "x"}
TmpExprs == {"d1", "d2"}

\* ROOT::Internal::CheckTmpBranch: TRUE if it throws
CheckTmpBranch(branchName) == branchName \in TreeBranches

\* fBookedBranches[branchPtr->GetName()] = branchPtr
MapAssign(map, name, expr) ==
    [n \in DOMAIN map \cup {name} |-> IF n = name THEN expr ELSE map[n]]

\* AddCol: CheckTmpBranch on the name, then TDataFrameImpl::Book(TmpBranchBasePtr_t)
BookBranch(name, expr) ==
    /\ pc = "idle"
    /\ nPasses < MaxPasses
    /\ IF CheckTmpBranch(name)
       THEN /\ printed' = [by |-> "error", h |-> 0, lines |-> <<>>]
            /\ UNCHANGED fBookedBranches
       ELSE /\ printed' = NoOutput
            /\ fBookedBranches' = MapAssign(fBookedBranches, name, expr)
    /\ UNCHANGED <<mode, dataVars, pickVars, propVars, mcVars, filterVars, handleVars, slotVars, passVars, histVars,
                   fHasRunAtLeastOnce>>

\* ------------------------------------------------------------- per-entry dispatch
\* State threaded through the processing of one entry by one worker:
\*   fst, part : fstate and partial as updated so far
\*   ev        : per filter, how often its callable was evaluated for this entry
\*   ret       : per filter, what its CheckFilters last returned ("n": not called)
\*   runs      : per handle, how often its action's Run was invoked for this entry
\*   upd       : handles whose accumulator was updated for this entry
\*   thrown    : a callable threw; the exception is on its way out of the loop body
RowState0 == [fst |-> fstate, part |-> partial,
              ev |-> [f \in 1..Len(fBookedFilters) |-> 0],
              ret |-> [f \in 1..Len(fBookedFilters) |-> "n"],
              runs |-> [h \in 1..Len(partial) |-> 0],
              upd |-> {},
              thrown |-> FALSE]

\* TDataFrameImpl::CheckFilters: the end of the recursive chain of calls
RootCheckFilters == TRUE

B2S(b) == IF b THEN "T" ELSE "F"

\* TDataFrameFilter::CheckFilters(slot, entry) of filter f (f = 0: the root).
\* A slot outside the vectors CreateSlots sized reads garbage (g[f] says what
\* the read of fLastCheckedEntry/fLastResult yields) and its writes are lost.
RECURSIVE CheckFilters(_, _, _, _, _)
CheckFilters(f, slot, entry, g, rs) ==
    IF f = 0 THEN [res |-> RootCheckFilters, rs |-> rs]
    ELSE
    LET node == fBookedFilters[f]
        st == rs.fst[f]
        wild == slot >= Len(st.lce)
        hit == IF wild THEN g[f] # "miss" ELSE st.lce[slot + 1] = entry
    IN  IF hit
        THEN LET r == IF wild THEN g[f] = "hitT" ELSE st.lres[slot + 1]
             IN [res |-> r, rs |-> [rs EXCEPT !.ret[f] = B2S(r)]]
        ELSE
        LET up == CheckFilters(node.prev, slot, entry, g, rs) IN
        IF up.rs.thrown THEN [res |-> FALSE, rs |-> up.rs]
        ELSE IF ~up.res
        THEN \* a filter upstream returned false: cache the result
             [res |-> FALSE,
              rs |-> [up.rs EXCEPT
                        !.ret[f] = "F",
                        !.fst[f] = IF wild THEN @
                                   ELSE [@ EXCEPT !.lres[slot + 1] = FALSE,
                                                  !.lce[slot + 1] = entry]]]
        ELSE IF Throws(node.pred, entry)
        THEN \* the callable is entered and throws: nothing is cached
             [res |-> FALSE, rs |-> [up.rs EXCEPT !.ev[f] = @ + 1, !.thrown = TRUE]]
        ELSE \* evaluate this filter, cache the result
             LET passed == Pred(node.pred, entry) IN
             [res |-> passed,
              rs |-> [up.rs EXCEPT
                        !.ev[f] = @ + 1,
                        !.ret[f] = B2S(passed),
                        !.fst[f] = IF wild THEN @
                                   ELSE [@ EXCEPT
                                           !.acc[slot + 1] = IF node.name # "" /\ passed
                                                             THEN @ + 1 ELSE @,
                                           !.rej[slot + 1] = IF node.name # "" /\ ~passed
                                                             THEN @ + 1 ELSE @,
                                           !.lres[slot + 1] = passed,
                                           !.lce[slot + 1] = entry]]]

\* The per-slot update of an action's accumulator. The accumulator is kept as
\* the buffer of the values the action was run on (take); the accumulator of
\* count is its length and that of sum-reduce its sum.
Exec(old, entry) == Append(old, ColA(entry))

\* TDataFrameAction::Run(slot, entry)
ActionRun(a, slot, entry, g, rs) ==
    LET c0 == CheckFilters(a.prev, slot, entry, g, rs)
        c == [c0 EXCEPT !.rs.runs[a.h] = @ + 1]
    IN
    IF c.rs.thrown \/ ~c.res THEN c.rs
    ELSE [c.rs EXCEPT
            !.upd = @ \cup {a.h},
            !.part[a.h] = IF slot >= Len(@) THEN @
                          ELSE [@ EXCEPT ![slot + 1] = Exec(@, entry)]]

\* for (auto &actionPtr : fBookedActions) actionPtr->Run(slot, currEntry);
RECURSIVE RunActions(_, _, _, _, _)
RunActions(i, slot, entry, g, rs) ==
    IF i > Len(fBookedActions) \/ rs.thrown THEN rs
    ELSE RunActions(i + 1, slot, entry, g, ActionRun(fBookedActions[i], slot, entry, g, rs))

\* for (auto &namedFilterPtr : fBookedNamedFilters) namedFilterPtr->CheckFilters(slot, currEntry);
RECURSIVE CheckNamedFilters(_, _, _, _, _)
CheckNamedFilters(i, slot, entry, g, rs) ==
    IF i > Len(fBookedNamedFilters) \/ rs.thrown THEN rs
    ELSE CheckNamedFilters(i + 1, slot, entry, g,
                           CheckFilters(fBookedNamedFilters[i], slot, entry, g, rs).rs)

\* A loop body that runs the first booked action only
ProcessEntryFirstActionOnly(slot, entry, g) ==
    CheckNamedFilters(1, slot, entry, g,
        IF fBookedActions = <<>> THEN RowState0
        ELSE ActionRun(fBookedActions[1], slot, entry, g, RowState0))

\* The body of the while (r.Next()) loop of Run
ProcessEntry(slot, entry, g) ==
    CheckNamedFilters(1, slot, entry, g, RunActions(1, slot, entry, g, RowState0))

\* ------------------------------------------------------------- CreateSlots
\* TDataFrameFilterBase::CreateSlots
FilterCreateSlots(st, nSlots) ==
    [lce |-> Resize(st.lce, nSlots, -1),
     lres |-> Resize(st.lres, nSlots, FALSE),
     acc |-> [i \in 1..nSlots |-> 0],
     rej |-> [i \in 1..nSlots |-> 0]]

\* The action's CreateSlots: one accumulator per slot, at the operation's identity
ActionCreateSlots(nSlots) == [i \in 1..nSlots |-> <<>>]

\* TDataFrameImpl::CreateSlots
CreateSlotsFilters(nSlots) == [f \in 1..Len(fstate) |-> FilterCreateSlots(fstate[f], nSlots)]
CreateSlotsActions(nSlots) ==
    [h \in 1..Len(partial) |->
        IF \E i \in 1..Len(fBookedActions) : fBookedActions[i].h = h
        THEN ActionCreateSlots(nSlots) ELSE partial[h]]

\* ------------------------------------------------------------- Run
\* A Run that sizes the slots of the sequential branch like those of the IMT branch
RunNSlotsAlwaysPool(par) == fNSlots

\* nSlots handed to CreateSlots by the branch of Run that is taken
RunNSlots(par) == IF par THEN fNSlots ELSE 1

\* A loop that leaves a range one row early
IsLastRowEarly(task, row) == row >= task.hi - 1

\* The rows of a task's range that the while (r.Next()) loop visits
FirstRow(task) == task.lo
IsLastRow(task, row) == row >= task.hi

\* Run(), up to the event loop
StartRun(by, h) ==
    /\ pc = "idle"
    /\ nPasses < MaxPasses
    /\ nAborts < MaxAborts
    /\ pc' = "running"
    /\ caller' = [by |-> by, h |-> h]
    /\ runPar' = IsImplicitMTEnabled
    /\ nAlloc' = RunNSlots(runPar')
    /\ runPool' = IF runPar' THEN mode ELSE 0
    /\ fstate' = CreateSlotsFilters(nAlloc')
    /\ partial' = CreateSlotsActions(nAlloc')
    /\ tstate' = [k \in 1..Len(TasksOf(IsImplicitMTEnabled)) |->
                    IF IsImplicitMTEnabled THEN "todo" ELSE "busy"]
    /\ slotMap' = [t \in Threads |-> -1]
    /\ globalSlotIndex' = 0
    /\ cur' = [w \in Workers |->
                 IF w = 0 /\ ~runPar' /\ TasksOf(FALSE) # <<>>
                 THEN [task |-> 1, row |-> FirstRow(TasksOf(FALSE)[1]), slot |-> 0]
                 ELSE NoCur]
    /\ rowBy' = [e \in 0..(nEntries - 1) |-> <<>>]
    /\ rowLog' = NoLog
    /\ printed' = NoOutput
    /\ UNCHANGED <<mode, dataVars, pickVars, propVars, mcVars, branchVars, filterVars, handleVars, fHasRunAtLeastOnce, nPasses,
                   nAborts, ctorMode>>

\* A lookup that never finds the thread in the map
AssignedSlotFresh(t) == globalSlotIndex

\* The slot a thread entering the Process lambda gets under slotMutex
AssignedSlot(t) == IF slotMap[t] # -1 THEN slotMap[t] ELSE globalSlotIndex

\* A pool thread enters the lambda given to tp.Process with the reader of task k
TaskEnter(t, k) ==
    /\ pc = "running" /\ runPar
    /\ t \in 1..runPool
    /\ cur[t].task = 0
    /\ k \in 1..Len(tstate) /\ tstate[k] = "todo"
    \* once a task has thrown, the pool starts no further task
    /\ \A k2 \in 1..Len(tstate) : tstate[k2] # "failed"
    \* thread ids are opaque: threads are numbered in the order of their first entry
    /\ slotMap[t] = -1 => \A u \in 1..(t - 1) : slotMap[u] # -1
    /\ LET slot == AssignedSlot(t) IN
        /\ slotMap' = [slotMap EXCEPT ![t] = slot]
        /\ globalSlotIndex' = IF slotMap[t] # -1 THEN globalSlotIndex
                              ELSE globalSlotIndex + 1
        /\ cur' = [cur EXCEPT ![t] = [task |-> k, row |-> FirstRow(Tasks[k]), slot |-> slot]]
    /\ tstate' = [tstate EXCEPT ![k] = "busy"]
    /\ UNCHANGED <<mode, dataVars, pickVars, propVars, mcVars, branchVars, filterVars, handleVars, slotVars, histVars,
                   fHasRunAtLeastOnce, printed, pc, caller, runPar, nAlloc, runPool>>

\* What the reads of fLastCheckedEntry[slot] and fLastResult[slot] past the end of
\* the vectors yield for each filter: no match, or a match with a cached result
Garbage == {"miss", "hitT", "hitF"}
GarbageReads == [1..Len(fBookedFilters) -> Garbage]
NoGarbage == [f \in 1..Len(fBookedFilters) |-> "miss"]

\* One iteration of while (r.Next()) by worker w
ProcessRow(w) ==
    /\ pc = "running"
    /\ cur[w].task # 0
    /\ LET c == cur[w]
           task == Tasks[c.task]
       IN
       \E g \in IF c.slot >= nAlloc THEN GarbageReads ELSE {NoGarbage} :
         LET rs == ProcessEntry(c.slot, c.row, g) IN
           /\ fstate' = rs.fst
           /\ partial' = rs.part
           /\ rowLog' = [entry |-> c.row, slot |-> c.slot, ev |-> rs.ev, ret |-> rs.ret,
                         runs |-> rs.runs, upd |-> rs.upd, thrown |-> rs.thrown]
           /\ rowBy' = [rowBy EXCEPT ![c.row] = Append(@, c.slot)]
           /\ IF rs.thrown
              THEN \* the exception leaves the loop and the reader's range
                   /\ cur' = [cur EXCEPT ![w] = NoCur]
                   /\ tstate' = [tstate EXCEPT ![c.task] = "failed"]
              ELSE IF IsLastRow(task, c.row)
              THEN /\ cur' = [cur EXCEPT ![w] = NoCur]
                   /\ tstate' = [tstate EXCEPT ![c.task] = "done"]
              ELSE /\ cur' = [cur EXCEPT ![w].row = c.row + 1]
                   /\ UNCHANGED tstate
    /\ UNCHANGED <<mode, dataVars, pickVars, propVars, mcVars, branchVars, filterVars, handleVars, fHasRunAtLeastOnce, printed,
                   pc, caller, runPar, nAlloc, runPool, slotMap, globalSlotIndex, nPasses,
                   nAborts, ctorMode>>

\* Indexing a per-slot vector past its end may also end the process
Crash(w) ==
    /\ pc = "running"
    /\ cur[w].task # 0
    /\ cur[w].slot >= nAlloc
    /\ Len(fBookedFilters) + Len(fBookedActions) > 0
    /\ pc' = "crashed"
    /\ UNCHANGED <<mode, dataVars, pickVars, propVars, mcVars, branchVars, filterVars, handleVars, slotVars, histVars,
                   fHasRunAtLeastOnce, printed, caller, runPar, nAlloc, runPool, tstate,
                   cur, slotMap, globalSlotIndex>>

\* The merge of an action's per-slot accumulators, in slot-index order, when the
\* action is forgotten
RECURSIVE Finalize(_)
Finalize(acc) == IF acc = <<>> THEN <<>> ELSE Head(acc) \o Finalize(Tail(acc))

\* What the merged buffer is for a count and for a sum-reduce action
CountOf(buf) == Len(buf)
SumOf(buf) == SumSeq(buf)

\* A report line whose total leaves out the rejected entries
PrintReportAcceptedOnly(f) ==
    LET accepted == SumSeq(fstate[f].acc)
        perc == IF accepted > 0 THEN 100000 ELSE 0
    IN [name |-> fBookedFilters[f].name, pass |-> accepted, all |-> accepted, perc |-> perc]

\* TDataFrameFilterBase::PrintReport: the line it prints, the percentage in
\* thousandths as %8.3f rounds it
PrintReport(f) ==
    LET accepted == SumSeq(fstate[f].acc)
        all == accepted + SumSeq(fstate[f].rej)
        perc == IF all > 0 THEN (2 * 100000 * accepted + all) \div (2 * all)
                ELSE 100000 * accepted
    IN [name |-> fBookedFilters[f].name, pass |-> accepted, all |-> all, perc |-> perc]

\* A Report that resets the counters it has printed
AfterReportResets(fst) ==
    [f \in 1..Len(fst) |-> [fst[f] EXCEPT !.acc = [i \in 1..Len(@) |-> 0],
                                           !.rej = [i \in 1..Len(@) |-> 0]]]

\* Report and PrintReport are const: the filters' state after a report
AfterReport(fst) == fst

\* TDataFrameImpl::Report
ReportLines == [i \in 1..Len(fBookedNamedFilters) |-> PrintReport(fBookedNamedFilters[i])]

\* A loop that stops after the first readiness flag
MarkReadyFirstOnly(rdy) ==
    [h \in 1..Len(rdy) |->
        IF fResProxyReadiness # <<>> /\ fResProxyReadiness[1] = h THEN TRUE ELSE rdy[h]]

\* for (auto readiness : fResProxyReadiness) *readiness.get() = true;
MarkReady(rdy) ==
    [h \in 1..Len(rdy) |->
        IF \E i \in 1..Len(fResProxyReadiness) : fResProxyReadiness[i] = h
        THEN TRUE ELSE rdy[h]]

\* A Run that goes on to its epilogue while rows are still to be processed
AllDoneEarly == pc = "running"

\* tp.Process / the sequential loop has returned: every task has ended
AllDone == pc = "running" /\ \A k \in 1..Len(tstate) : tstate[k] = "done"

\* A Run that keeps the actions it has served
ForgetActionsKeeps(acts) == acts

\* fBookedActions.clear();
ForgetActions(acts) == <<>>

\* A Run that leaves the flag as it found it
SetHasRunForgotten(flag) == flag

\* fHasRunAtLeastOnce = true;
SetHasRun(flag) == TRUE

\* Run(), after the event loop
FinishRun ==
    /\ AllDone
    /\ fHasRunAtLeastOnce' = SetHasRun(fHasRunAtLeastOnce)
    /\ value' = [h \in 1..Len(value) |->
                   IF \E i \in 1..Len(fBookedActions) : fBookedActions[i].h = h
                   THEN Finalize(partial[h]) ELSE value[h]]
    /\ fBookedActions' = ForgetActions(fBookedActions)
    /\ ready' = MarkReady(ready)
    /\ fResProxyReadiness' = <<>>
    /\ pc' = "idle"
    /\ printed' = IF caller.by = "report"
                  THEN [by |-> "report", h |-> 0, lines |-> ReportLines]
                  ELSE [by |-> "observe", h |-> caller.h, lines |-> value'[caller.h]]
    /\ nPasses' = nPasses + 1
    \* the locals of Run go out of scope
    /\ caller' = [by |-> "none", h |-> 0]
    /\ runPar' = FALSE
    /\ nAlloc' = 0
    /\ runPool' = 0
    /\ tstate' = <<>>
    /\ slotMap' = [t \in Threads |-> -1]
    /\ globalSlotIndex' = 0
    /\ rowBy' = [e \in 0..(nEntries - 1) |-> <<>>]
    /\ rowLog' = NoLog
    /\ partial' = [h \in 1..Len(partial) |-> <<>>]
    /\ UNCHANGED <<mode, dataVars, pickVars, propVars, mcVars, branchVars, filterVars, fstate, cur, ctorMode, nAborts>>

\* A Run that publishes readiness on its way out, exception or not
ReadyAfterThrowPublished(rdy) == MarkReady(rdy)

\* The readiness flags when an exception leaves Run: the loop that sets them,
\* after the event loop, is not reached
ReadyAfterThrow(rdy) == rdy

\* Run() left by an exception: a callable threw, the tasks in flight have ended,
\* and the exception propagates to the caller of Run past the code after the loop
AbortRun ==
    /\ pc = "running"
    /\ \E k \in 1..Len(tstate) : tstate[k] = "failed"
    /\ \A k \in 1..Len(tstate) : tstate[k] # "busy"
    /\ pc' = "idle"
    /\ printed' = [by |-> "error", h |-> 0, lines |-> <<>>]
    \* the locals of Run go out of scope
    /\ caller' = [by |-> "none", h |-> 0]
    /\ runPar' = FALSE
    /\ nAlloc' = 0
    /\ runPool' = 0
    /\ tstate' = <<>>
    /\ slotMap' = [t \in Threads |-> -1]
    /\ globalSlotIndex' = 0
    /\ rowBy' = [e \in 0..(nEntries - 1) |-> <<>>]
    /\ rowLog' = NoLog
    /\ ready' = ReadyAfterThrow(ready)
    /\ nAborts' = nAborts + 1
    /\ UNCHANGED <<mode, dataVars, pickVars, propVars, mcVars, branchVars, filterVars, fBookedActions, fResProxyReadiness, value,
                   slotVars, fHasRunAtLeastOnce, cur, ctorMode, nPasses>>

\* ------------------------------------------------------------- user operations
\* TActionResultPtr::Get on a handle that is ready
ObserveReady(h) ==
    /\ pc = "idle"
    /\ h \in 1..Len(ready)
    /\ ready[h]
    /\ printed' = [by |-> "observe", h |-> h, lines |-> value[h]]
    /\ UNCHANGED <<mode, dataVars, pickVars, propVars, mcVars, branchVars, filterVars, handleVars, slotVars, passVars, histVars,
                   fHasRunAtLeastOnce>>

\* TActionResultPtr::Get on a handle that is not ready: TriggerRun
ObserveUnready(h) ==
    /\ h \in 1..Len(ready)
    /\ ~ready[h]
    /\ StartRun("observe", h)

\* TActionResultPtr::Get by another thread while Run is executing: the handle is
\* not ready, so that thread enters Run as well. The two executions of Run race
\* on the root's members; nothing is said about what follows.
ObserveDuringRun(h) ==
    /\ pc = "running"
    /\ h \in 1..Len(ready)
    /\ ~ready[h]
    /\ pc' = "raced"
    /\ UNCHANGED <<mode, dataVars, pickVars, propVars, mcVars, branchVars, filterVars, handleVars, slotVars, histVars,
                   fHasRunAtLeastOnce, printed, caller, runPar, nAlloc, runPool, tstate,
                   cur, slotMap, globalSlotIndex>>

\* TDataFrameInterface::Report
Report ==
    IF fHasRunAtLeastOnce
    THEN /\ pc = "idle"
         /\ printed' = [by |-> "report", h |-> 0, lines |-> ReportLines]
         /\ fstate' = AfterReport(fstate)
         /\ UNCHANGED <<mode, dataVars, pickVars, propVars, mcVars, branchVars, filterVars, handleVars, partial, passVars,
                        histVars, fHasRunAtLeastOnce>>
    ELSE StartRun("report", 0)

\* ------------------------------------------------------------- properties
Handles == 1..Len(ready)
BookedHandles == {fBookedActions[i].h : i \in 1..Len(fBookedActions)}
PassStarts == pc = "idle" /\ pc' = "running"
PassEnds == pc = "running" /\ pc' = "idle"
RowStep == pc = "running" /\ pc' = "running" /\ rowBy' # rowBy

\* C1: a pass is driven by an observation only when the observed handle is not
\* ready, and that observation drives exactly one pass: when the pass ends the
\* pass count has grown by one and every handle booked before it is ready, a
\* ready handle stays ready, and no step outside a pass (such as observing a
\* ready handle) adds a pass.
C1_ObservationDrivesOnePass ==
    [][ /\ (PassStarts /\ caller'.by = "observe")
            => caller'.h \in Handles /\ ~ready[caller'.h] /\ nPasses' = nPasses
        /\ PassEnds => /\ nPasses' = nPasses + 1
                       /\ Len(ready') = Len(ready)
                       /\ \A h \in Handles : ready'[h]
        /\ \A h \in Handles : ready[h] => ready'[h]
        /\ ~PassEnds => nPasses' = nPasses
        /\ (pc = "idle" /\ \A h \in Handles : ready[h]) => pc' = "idle" \/ caller'.by = "report"
      ]_vars

\* C1 witness: a pass driven by an observation is over, every booked handle is
\* ready and the observation has given back the handle's value
C1_Witness ==
    /\ pc = "idle" /\ nPasses = 1
    /\ Len(ready) = MaxActions /\ \A h \in Handles : ready[h]
    /\ printed.by = "observe" /\ fBookedActions = <<>>

\* C2: one Run serves all the actions booked before it: during the pass each
\* processed row invokes the Run of every booked action, the pass ends only when
\* every row was processed, and the end of the pass marks the readiness flag of
\* every booked action; outside a pass the handles that are not ready are
\* exactly those of the actions booked since the last pass.
C2_OnePassServesAllBooked ==
    [][ /\ RowStep => \A h \in BookedHandles : rowLog'.runs[h] = 1
        /\ PassEnds => /\ \A e \in 0..(nEntries - 1) : rowBy[e] # <<>>
                       /\ \A h \in BookedHandles : ready'[h]
                       /\ BookedHandles' = {}
        /\ pc' = "idle" => {h \in Handles' : ~ready'[h]} = BookedHandles'
      ]_vars

\* C2 witness: a pass over two rows with two booked actions has processed every row
C2_Witness ==
    /\ AllDone /\ nEntries = MaxRows
    /\ Len(fBookedActions) = MaxActions
    /\ rowLog.entry # -1 /\ \A h \in BookedHandles : rowLog.runs[h] = 1

\* C4: within a pass every row is processed exactly once, by exactly one slot,
\* and on that row the Run of every booked action is invoked exactly once,
\* whatever the partition of the rows into ranges: no row is processed twice
\* while the pass runs and none is missing when its ranges are done.
C4_EachRowOnce ==
    /\ pc = "running" =>
        /\ \A e \in 0..(nEntries - 1) : Len(rowBy[e]) <= 1
        /\ rowLog.entry # -1 => \A h \in BookedHandles : rowLog.runs[h] = 1
    /\ AllDone => \A e \in 0..(nEntries - 1) : Len(rowBy[e]) = 1

\* C4 witness: a parallel pass over two ranges is done, each row processed by
\* another slot
C4_Witness ==
    /\ AllDone /\ runPar /\ nEntries = MaxRows /\ Len(tstate) > 1
    /\ fBookedActions # <<>>
    /\ rowBy[0] # rowBy[1]

\* What a filter chain accepts, straight from the callables
RECURSIVE RefAccept(_, _)
RefAccept(f, e) ==
    f = 0 \/ (RefAccept(fBookedFilters[f].prev, e) /\ Pred(fBookedFilters[f].pred, e))
RefRows(f) == {e \in 0..(nEntries - 1) : RefAccept(f, e)}
\* The buffer of a single-threaded run of an action booked under node f
RECURSIVE RefBufferFrom(_, _)
RefBufferFrom(f, e) ==
    IF e >= nEntries THEN <<>>
    ELSE (IF RefAccept(f, e) THEN <<ColA(e)>> ELSE <<>>) \o RefBufferFrom(f, e + 1)
Accepted(f) == SumSeq(fstate[f].acc)
Observed(f) == SumSeq(fstate[f].acc) + SumSeq(fstate[f].rej)

\* C3: when the ranges of a parallel pass are done, the merge of the per-slot
\* accumulators of every booked action gives the count and the sum that a
\* single-threaded run of the same pipeline gives.
C3_ParallelEqualsSequential ==
    (AllDone /\ runPar) =>
        \A i \in 1..Len(fBookedActions) :
            LET a == fBookedActions[i]
                merged == Finalize(partial[a.h])
                ref == RefBufferFrom(a.prev, 0)
            IN CountOf(merged) = CountOf(ref) /\ SumOf(merged) = SumOf(ref)

\* C5: the slot index a worker uses in the callable lies in [0, N), N the number
\* of slots CreateSlots allocated for the pass.
C5_SlotInRange ==
    \A w \in Workers : cur[w].task # 0 => cur[w].slot >= 0 /\ cur[w].slot < nAlloc

C7_CountersMatchRows ==
    AllDone =>
        \A i \in 1..Len(fBookedNamedFilters) :
            LET f == fBookedNamedFilters[i] IN
              /\ Observed(f) = Cardinality(RefRows(fBookedFilters[f].prev))
              /\ Accepted(f) = Cardinality(RefRows(f))

\* C8: processing one row on one slot evaluates the callable of each filter at
\* most once, however many actions and named-filter checks request it, and adds
\* at most one to the accept and reject counters of a filter.
C8_AtMostOneEvaluation ==
    [][ RowStep =>
          \A f \in 1..Len(fBookedFilters) :
              /\ rowLog'.ev[f] <= 1
              /\ Observed(f)' <= Observed(f) + 1
      ]_vars

\* The filters above node f in its chain
RECURSIVE Ancestors(_)
Ancestors(f) == IF f = 0 \/ fBookedFilters[f].prev = 0 THEN {}
                ELSE {fBookedFilters[f].prev} \cup Ancestors(fBookedFilters[f].prev)

\* C9: processing a row on which an ancestor of a filter returns false does not
\* evaluate the filter's callable, the filter does not return true and, having
\* been asked, has false recorded for the row, its counters are unchanged, and
\* no action booked under it or under the ancestor updates its accumulator;
\* an action booked on the root is updated on every row.
C9_ShortCircuit ==
    [][ RowStep =>
          LET L == rowLog'
              failed(f) == \E q \in Ancestors(f) : L.ret[q] = "F"
          IN
          /\ \A f \in 1..Len(fBookedFilters) : failed(f) =>
                /\ L.ev[f] = 0
                /\ L.ret[f] # "T"
                /\ fstate'[f].acc = fstate[f].acc /\ fstate'[f].rej = fstate[f].rej
                /\ (L.ret[f] = "F" /\ L.slot < nAlloc) =>
                      /\ fstate'[f].lres[L.slot + 1] = FALSE
                      /\ fstate'[f].lce[L.slot + 1] = L.entry
          /\ \A i \in 1..Len(fBookedActions) :
                LET a == fBookedActions[i] IN
                  /\ (a.prev # 0 /\ (failed(a.prev) \/ L.ret[a.prev] = "F")) =>
                        a.h \notin L.upd /\ partial'[a.h] = partial[a.h]
                  /\ a.prev = 0 => a.h \in L.upd
      ]_vars

\* The named filters, in the order they were booked
RECURSIVE NamedFrom(_)
NamedFrom(f) == IF f > Len(fBookedFilters) THEN <<>>
                ELSE (IF fBookedFilters[f].name # "" THEN <<f>> ELSE <<>>) \o NamedFrom(f + 1)

\* C10: what Report prints is one line per named filter, in booking order and
\* none for an unnamed filter; a line carries the filter's name, its accept
\* counters summed over the slots, its accept and reject counters summed over
\* the slots, and the percentage accept/observed x 100 (to the three decimals
\* printed) when something was observed and zero otherwise.
C10_ReportLines ==
    printed.by = "report" =>
        LET named == NamedFrom(1) IN
        /\ Len(printed.lines) = Len(named)
        /\ \A i \in 1..Len(named) :
             LET f == named[i]
                 line == printed.lines[i]
             IN /\ line.name = fBookedFilters[f].name
                /\ line.pass = Accepted(f)
                /\ line.all = Observed(f)
                /\ IF Observed(f) > 0
                   THEN /\ 2 * (line.perc * Observed(f) - 100000 * Accepted(f)) <= Observed(f)
                        /\ 2 * (100000 * Accepted(f) - line.perc * Observed(f)) < Observed(f)
                   ELSE line.perc = 0

\* C10 witness: a report of two named filters booked in reverse alphabetical
\* order, the second of which accepted one of the two entries it observed
C10_Witness ==
    /\ printed.by = "report" /\ Len(printed.lines) = MaxFilters
    /\ printed.lines[1].name = "lt3" /\ printed.lines[2].name = "gt1"
    /\ printed.lines[2].all = MaxRows /\ printed.lines[2].pass = 1
    /\ printed.lines[2].perc = 50000

\* C11: Report starts a pass only on a root on which no pass has completed,
\* and then nothing is printed until that pass has ended; whenever a report is
\* printed a pass has completed and the lines are those of the counters as the
\* last pass left them; on a root on which a pass has completed Report prints
\* without starting a pass.
C11_ReportRunsPassIfNone ==
    [][ /\ (PassStarts /\ caller'.by = "report") =>
              /\ ~fHasRunAtLeastOnce /\ nPasses = 0
              /\ printed' = NoOutput
        /\ (pc' = "running" /\ caller'.by = "report") => printed' = NoOutput
        /\ (printed' # printed /\ printed'.by = "report") =>
              /\ fHasRunAtLeastOnce' /\ nPasses' >= 1
              /\ pc' = "idle"
              /\ printed'.lines = ReportLines'
              /\ \/ PassEnds /\ caller.by = "report" /\ nPasses' = nPasses + 1
                 \/ pc = "idle" /\ nPasses >= 1 /\ nPasses' = nPasses /\ fstate' = fstate
        /\ (pc = "idle" /\ nPasses >= 1) => ~(pc' = "running" /\ caller'.by = "report")
      ]_vars

\* C11 witness: Report on a root with a named filter and no action ever booked
\* has run the pass and printed its counts
C11_Witness ==
    /\ pc = "idle" /\ nPasses = 1 /\ ready = <<>>
    /\ printed.by = "report" /\ printed.lines # <<>>
    /\ printed.lines[1].all = MaxRows

\* C12: the value of a ready handle never changes and an observation gives back
\* the handle's value, so observing a handle twice gives the same value; a
\* Report that follows a report prints the same lines and leaves the filters'
\* counters and caches, the booked filters and actions and the has-run flag as
\* they were.
C12_ObserveAndReportIdempotent ==
    [][ /\ \A h \in Handles : ready[h] => value'[h] = value[h]
        /\ (printed' # printed /\ printed'.by = "observe") =>
              /\ printed'.h \in Handles' /\ ready'[printed'.h]
              /\ printed'.lines = value'[printed'.h]
        /\ (printed.by = "observe" /\ printed'.by = "observe" /\ printed'.h = printed.h) =>
              printed'.lines = printed.lines
        /\ (pc = "idle" /\ printed.by = "report" /\ printed'.by = "report") =>
              /\ printed'.lines = printed.lines
              /\ fstate' = fstate
              /\ UNCHANGED <<filterVars, handleVars, fHasRunAtLeastOnce>>
        /\ (pc = "idle" /\ pc' = "idle" /\ printed'.by = "report") =>
              /\ fstate' = fstate
              /\ UNCHANGED <<filterVars, handleVars, fHasRunAtLeastOnce>>
      ]_vars

\* C12 witness: a handle made ready by a pass is observed after a further action
\* was booked, and gives back the values of all the entries
C12_Witness ==
    /\ pc = "idle" /\ nPasses = 1 /\ fBookedActions # <<>>
    /\ printed.by = "observe" /\ Len(printed.lines) = MaxRows

Collections == <<fBookedActions, fBookedFilters, fBookedNamedFilters, fBookedBranches>>
IdleStep == pc = "idle" /\ pc' = "idle"

\* C13 as stated: once the root has completed a pass no booking changes the
\* booked actions, the booked filters, the named filters or the booked branches.
C13_RootFrozen ==
    [][ (fHasRunAtLeastOnce /\ IdleStep) => Collections' = Collections ]_vars

\* C13 amended: booking is accepted after a completed pass as before it. No
\* operation ends with a root-frozen error, and a step between passes that
\* changes a collection is the booking of one node: a filter appended to the
\* booked filters (and to the named filters if it has a name), an action
\* appended with its readiness flag false, or a branch stored under a name that
\* is not a branch of the tree; the has-run flag is not touched.
C13_BookingAfterPass ==
    [][ /\ printed'.by # "root-frozen"
        /\ (IdleStep /\ Collections' # Collections) =>
              /\ fHasRunAtLeastOnce' = fHasRunAtLeastOnce
              /\ \/ /\ \E node \in [prev : 0..Len(fBookedFilters), pred : {"gt1", "lt3", "thr"},
                                    name : {"", "gt1", "lt3"}] :
                          /\ fBookedFilters' = Append(fBookedFilters, node)
                          /\ fBookedNamedFilters' =
                                IF node.name # ""
                                THEN Append(fBookedNamedFilters, Len(fBookedFilters) + 1)
                                ELSE fBookedNamedFilters
                    /\ UNCHANGED <<handleVars, fBookedBranches>>
                 \/ /\ \E prev \in 0..Len(fBookedFilters) :
                          fBookedActions' =
                              Append(fBookedActions, [prev |-> prev, h |-> Len(ready) + 1])
                    /\ ready' = Append(ready, FALSE)
                    /\ fResProxyReadiness' = Append(fResProxyReadiness, Len(ready) + 1)
                    /\ UNCHANGED <<filterVars, fBookedBranches>>
                 \/ /\ \E name \in TmpNames \ TreeBranches, expr \in TmpExprs :
                          /\ DOMAIN fBookedBranches' = DOMAIN fBookedBranches \cup {name}
                          /\ fBookedBranches'[name] = expr
                          /\ \A n \in DOMAIN fBookedBranches \ {name} :
                                fBookedBranches'[n] = fBookedBranches[n]
                    /\ UNCHANGED <<filterVars, handleVars>>
      ]_vars

\* C13 witness: an action was booked on a root that has completed a pass; its
\* handle is not ready
C13_Witness ==
    /\ pc = "idle" /\ fHasRunAtLeastOnce /\ nPasses = 1
    /\ fBookedActions # <<>>
    /\ \A h \in BookedHandles : ~ready[h]
    /\ fBookedBranches # <<>>

\* C14: booking a derived column under the name of a tree branch or of an
\* earlier derived column fails and leaves the booked branches unchanged; a
\* derived column already booked is never replaced.
C14_DerivedNeverReplaced ==
    [][ \A n \in DOMAIN fBookedBranches :
          n \in DOMAIN fBookedBranches' /\ fBookedBranches'[n] = fBookedBranches[n] ]_vars

PassCompletes == PassEnds /\ nPasses' = nPasses + 1

\* C18: when a pass completes the booked actions and the readiness list are
\* empty and the has-run flag is true; the flag, once true, stays true; and a
\* pass changes neither the booked filters, the named filters nor the booked
\* branches, from its start to its end.
C18_AfterPass ==
    [][ /\ PassCompletes =>
              /\ fBookedActions' = <<>>
              /\ fResProxyReadiness' = <<>>
              /\ fHasRunAtLeastOnce'
        /\ fHasRunAtLeastOnce => fHasRunAtLeastOnce'
        /\ (pc = "running" \/ PassStarts) => UNCHANGED <<filterVars, branchVars>>
      ]_vars

\* C18 witness: a pass over booked filters (one of them named), a booked branch
\* and a booked action has completed
C18_Witness ==
    /\ pc = "idle" /\ nPasses >= 1 /\ fHasRunAtLeastOnce
    /\ fBookedActions = <<>> /\ fResProxyReadiness = <<>>
    /\ \E h \in Handles : ready[h]
    /\ fBookedNamedFilters # <<>>
    /\ fBookedBranches # <<>>

\* C19: the handle of a booked action is not ready from its booking to the end
\* of the pass that serves it: a new handle starts not ready, no flag changes
\* while a pass starts or runs, and a flag becomes true only in the step that
\* ends a completed pass over its action, after every row was processed and
\* every task has ended, together with the finalised value; a flag that is true
\* never becomes false.
C19_ReadyOnlyAfterFinalise ==
    [][ /\ \A h \in 1..Len(ready') :
             /\ h \notin Handles => ~ready'[h]
             /\ (h \in Handles /\ ready[h]) => ready'[h]
             /\ (h \in Handles /\ ~ready[h] /\ ready'[h]) =>
                   /\ PassCompletes
                   /\ h \in BookedHandles
                   /\ \A e \in 0..(nEntries - 1) : rowBy[e] # <<>>
                   /\ \A k \in 1..Len(tstate) : tstate[k] = "done"
                   /\ value'[h] = Finalize(partial[h])
        /\ pc = "running" => \A h \in BookedHandles : ~ready[h]
        /\ (PassStarts \/ (pc = "running" /\ pc' = "running")) =>
              /\ ready' = ready
              /\ value' = value
        /\ PassStarts => \A e \in 0..(nEntries - 1) : rowBy'[e] = <<>>
      ]_vars

\* C19 witness: a handle served by a completed pass is ready with a non-empty
\* value while the handle of an action booked after that pass is not ready
C19_Witness ==
    /\ pc = "idle" /\ nPasses = 1
    /\ Len(ready) = 2
    /\ ready[1] /\ value[1] # <<>>
    /\ ~ready[2] /\ 2 \in BookedHandles

\* The executions of Run that are in progress on the root
RunsInProgress == IF pc = "running" THEN 1 ELSE IF pc = "raced" THEN 2 ELSE 0

\* C20: Run is atomic with respect to the observations of handles: at most one
\* execution of Run on the root is in progress at any time, also when a second
\* thread observes a handle that is not ready while a pass is running.
C20_AtMostOneRun == RunsInProgress <= 1

\* C15: a callable of k arguments booked with an empty list gets the first k
\* entries of the default list whenever the default list has at least k
\* entries, and booking is an error only when the default list has fewer.
C15_FirstKOfDefault ==
    (picked # NoPick /\ bl = <<>>) =>
        IF Len(defBl) >= nArgs
        THEN ~picked.thrown /\ picked.names = SubSeq(defBl, 1, nArgs)
        ELSE picked.thrown

\* C16: for a callable of k arguments, a non-empty list of k entries is given
\* back unchanged and the default list is not used; a non-empty list of any
\* other size is an error whatever the default list is; the default list is used
\* only when the given list is empty.
C16_ExplicitListWins ==
    picked # NoPick =>
        /\ (bl # <<>> /\ Len(bl) = nArgs) =>
              ~picked.thrown /\ ~picked.useDefBl /\ picked.names = bl
        /\ (bl # <<>> /\ Len(bl) # nArgs) => picked.thrown
        /\ picked.useDefBl => bl = <<>> /\ picked.names = defBl

\* C16 witness: PickBranchNames gave back a non-empty list of as many entries as
\* the callable has arguments, on a TDataFrame with another default list of the
\* same size
C16_Witness ==
    /\ picked # NoPick /\ ~picked.thrown
    /\ nArgs = MaxArgs /\ Len(bl) = nArgs /\ Len(defBl) = nArgs /\ bl # defBl
    /\ picked.names = bl

\* C21: two parallel passes of the same pipeline over the same tree with the
\* same clusters give the same merged result for a take action, whatever the
\* order in which the pool threads first enter the pass: two take actions booked
\* on the root and served by such passes have the same buffer.
C21_TakeDeterministic ==
    (pc = "idle" /\ Len(ready) = 2 /\ ready[1] /\ ready[2]) => value[1] = value[2]

\* C22: along a chain root -> named filter F1 -> named filter F2 -> count
\* action, when the rows of the pass are done F1 has observed every row, F2 has
\* observed what F1 accepted, the count is what F2 accepted, and F1 is reported
\* before F2.
C22_CutflowChain ==
    AllDone =>
        \A i \in 1..Len(fBookedActions) :
            LET a == fBookedActions[i]
                f2 == a.prev
                f1 == IF f2 = 0 THEN 0 ELSE fBookedFilters[f2].prev
            IN (/\ f2 # 0 /\ f1 # 0
                /\ fBookedFilters[f1].prev = 0
                /\ fBookedFilters[f1].name # "" /\ fBookedFilters[f2].name # "") =>
                   /\ Observed(f1) = nEntries
                   /\ Observed(f2) = Accepted(f1)
                   /\ CountOf(Finalize(partial[a.h])) = Accepted(f2)
                   /\ \E k1, k2 \in 1..Len(fBookedNamedFilters) :
                         k1 < k2 /\ fBookedNamedFilters[k1] = f1 /\ fBookedNamedFilters[k2] = f2

\* C23: a pass over a tree without entries can end at once, and when it
\* completes every handle is ready, every action served has counted 0 and every
\* named filter has accepted 0 and rejected 0; when a parallel pass with more
\* than one pool thread over a tree of one entry completes, exactly one slot has
\* processed the entry and on every other slot the counters of every filter are
\* 0 and the accumulator of every action is empty.
C23_Boundary ==
    [][ /\ (PassStarts /\ nEntries = 0) => AllDone'
        /\ (PassCompletes /\ nEntries = 0) =>
              /\ \A h \in Handles : ready'[h]
              /\ \A h \in BookedHandles : CountOf(value'[h]) = 0
              /\ \A i \in 1..Len(fBookedNamedFilters) :
                    LET f == fBookedNamedFilters[i] IN
                    Accepted(f)' = 0 /\ Observed(f)' = 0
        /\ (PassCompletes /\ nEntries = 1 /\ runPar /\ runPool > 1) =>
              /\ Len(rowBy[0]) = 1
              /\ \A s \in 0..(nAlloc - 1) : s # rowBy[0][1] =>
                    /\ \A f \in 1..Len(fstate) :
                          fstate[f].acc[s + 1] = 0 /\ fstate[f].rej[s + 1] = 0
                    /\ \A h \in BookedHandles : partial[h][s + 1] = <<>>
      ]_vars

\* C23 witness: the only entry of a tree has been processed on slot 0 of the
\* two slots of a parallel pass with a named filter and an action
C23_Witness ==
    /\ AllDone /\ runPar /\ nEntries = 1 /\ runPool = 2 /\ nAlloc = 2
    /\ fBookedNamedFilters # <<>> /\ fBookedActions # <<>>
    /\ rowBy[0] = <<0>>
    /\ \A h \in BookedHandles : partial[h][2] = <<>>

\* The pool threads that are in the slot map
Mapped == {t \in Threads : slotMap[t] # -1}

\* C24: while a parallel pass runs the slot map is injective, the slots in it
\* are exactly 0 .. globalSlotIndex - 1, globalSlotIndex is the number of
\* threads in the map, and a thread inside the callable works on the slot the
\* map holds for it; from step to step globalSlotIndex never decreases and a
\* thread in the map keeps its slot, so a thread that enters again gets the slot
\* it got the first time.
C24_SlotMapInvariant ==
    [][ /\ (pc = "running" /\ runPar) =>
              /\ \A t, u \in Mapped : t # u => slotMap[t] # slotMap[u]
              /\ {slotMap[t] : t \in Mapped} = 0..(globalSlotIndex - 1)
              /\ Cardinality(Mapped) = globalSlotIndex
              /\ \A t \in Threads : cur[t].task # 0 => t \in Mapped /\ cur[t].slot = slotMap[t]
        /\ (pc = "running" /\ pc' = "running") =>
              /\ globalSlotIndex' >= globalSlotIndex
              /\ \A t \in Mapped : slotMap'[t] = slotMap[t]
              /\ \A t \in Threads : cur'[t].task # 0 => cur'[t].slot = slotMap'[t]
      ]_vars

\* C24 witness: the thread that processed the first range on slot 0 has entered
\* the callable again for the second range and works on slot 0 again
C24_Witness ==
    /\ pc = "running" /\ runPar
    /\ tstate = <<"done", "busy">>
    /\ rowBy[0] = <<0>>
    /\ cur[1].task = 2 /\ cur[1].slot = 0
    /\ globalSlotIndex = 1

\* C25: in a parallel pass the per-slot state of the slot a worker uses was
\* allocated before the worker started and is the only per-slot state the
\* worker touches: processing a row changes the cache, the counters and the
\* accumulators at the worker's own slot only; the actions are forgotten and the
\* readiness flags set only when every range is done and no worker is left in
\* the callable.
C25_OnlyOwnSlot ==
    [][ /\ (pc = "running" /\ runPar) =>
              \A w \in Workers : cur[w].task # 0 =>
                  /\ \A f \in 1..Len(fstate) :
                        /\ cur[w].slot < Len(fstate[f].lce)
                        /\ cur[w].slot < Len(fstate[f].lres)
                        /\ cur[w].slot < Len(fstate[f].acc)
                        /\ cur[w].slot < Len(fstate[f].rej)
                  /\ \A h \in BookedHandles : cur[w].slot < Len(partial[h])
        /\ (RowStep /\ runPar) =>
              /\ \A f \in 1..Len(fstate) : \A i \in 1..Len(fstate[f].acc) :
                    i # rowLog'.slot + 1 =>
                        /\ fstate'[f].lce[i] = fstate[f].lce[i]
                        /\ fstate'[f].lres[i] = fstate[f].lres[i]
                        /\ fstate'[f].acc[i] = fstate[f].acc[i]
                        /\ fstate'[f].rej[i] = fstate[f].rej[i]
              /\ \A h \in BookedHandles : \A i \in 1..Len(partial[h]) :
                    i # rowLog'.slot + 1 => partial'[h][i] = partial[h][i]
        /\ (pc = "running" /\ pc' = "running") =>
              fBookedActions' = fBookedActions /\ ready' = ready
        /\ PassEnds =>
              /\ \A k \in 1..Len(tstate) : tstate[k] = "done"
              /\ \A w \in Workers : cur[w].task = 0
      ]_vars

\* C26: at the start of every pass, a pass that follows an earlier pass on
\* the same filters included, CreateSlots leaves the last-checked entry of
\* every slot of every filter at -1 and the accepted and rejected counters of
\* every slot at 0.
C26_CreateSlotsResetsCache ==
    [][ PassStarts =>
          \A f \in 1..Len(fstate') : \A i \in 1..nAlloc' :
              /\ fstate'[f].lce[i] = -1
              /\ fstate'[f].acc[i] = 0
              /\ fstate'[f].rej[i] = 0
      ]_vars

\* C27: a report printed after a second pass gives, for every named filter,
\* the counts of the second pass alone: as many rows observed as its ancestors
\* accept and as many passed as the filter accepts, neither more (the sum of
\* both passes) nor fewer.
C27_ReportOfLatestLoop ==
    (pc = "idle" /\ nPasses = 2 /\ printed.by = "report") =>
        \A i \in 1..Len(fBookedNamedFilters) :
            LET f == fBookedNamedFilters[i] IN
              /\ printed.lines[i].all = Cardinality(RefRows(fBookedFilters[f].prev))
              /\ printed.lines[i].pass = Cardinality(RefRows(f))

\* C28 as stated: Run is guarded by the has-run flag: no pass starts on a root
\* whose flag is true, so a root sees at most one pass.
C28_RunGuardedByHasRun ==
    [][ (fHasRunAtLeastOnce => ~PassStarts) /\ nPasses' <= 1 ]_vars

\* C28 amended: the has-run flag guards Report only. A pass started by Report
\* starts on a root whose flag is false; a pass started by an observation starts
\* whenever the observed handle is not ready, whatever the flag is; and every
\* pass, on a root that has run or not, resets the counters of every filter when
\* it starts and has processed every row of the tree when it completes.
C28_EveryRunTraverses ==
    [][ /\ PassStarts =>
              /\ caller'.by = "report" => ~fHasRunAtLeastOnce
              /\ caller'.by = "observe" => ~ready[caller'.h]
              /\ \A f \in 1..Len(fstate') : \A i \in 1..nAlloc' :
                    fstate'[f].acc[i] = 0 /\ fstate'[f].rej[i] = 0
              /\ \A e \in 0..(nEntries - 1) : rowBy'[e] = <<>>
        /\ PassCompletes => \A e \in 0..(nEntries - 1) : Len(rowBy[e]) >= 1
      ]_vars

\* C28 witness: a pass on a root whose has-run flag is true has processed a
\* row and evaluated the callable of a filter on it
C28_Witness ==
    /\ pc = "running" /\ fHasRunAtLeastOnce /\ nPasses = 1
    /\ rowLog.entry # -1
    /\ \E f \in 1..Len(fBookedFilters) : rowLog.ev[f] = 1

\* C29: for a worker about to process row r on slot s, checking a filter for
\* (s, r) and checking it again at once gives the same boolean the second time,
\* without a further call of any callable and with the counters and the cache
\* of every filter as the first check left them.
C29_RecheckIdempotent ==
    pc = "running" =>
        \A w \in Workers : cur[w].task # 0 =>
            \A g \in IF cur[w].slot >= nAlloc THEN GarbageReads ELSE {NoGarbage} :
                \A f \in 1..Len(fBookedFilters) :
                    LET c1 == CheckFilters(f, cur[w].slot, cur[w].row, g, RowState0)
                        c2 == CheckFilters(f, cur[w].slot, cur[w].row, g, c1.rs)
                    IN /\ c2.res = c1.res
                       /\ \A q \in 1..Len(fBookedFilters) : c2.rs.ev[q] = c1.rs.ev[q]
                       /\ c2.rs.fst = c1.rs.fst

\* C30: with callables that do not fail and threads scheduled fairly, a pass
\* that has started eventually ends, and when it has ended every handle issued
\* before it is ready.
C30_PassTerminates ==
    (pc = "running") ~> (pc = "idle" /\ \A h \in Handles : ready[h])

\* Every variable of xPrime but the one at index j has the value it has in x
OthersCopied ==
    \A i \in 1..Len(xPrime) : i # j + 1 => xPrime[i].val = x[i].val

\* The variable at index j holds a finite value inside its range
MovedInRange ==
    j < Len(xPrime) =>
        /\ xPrime[j + 1].val.k = "fin"
        /\ xPrime[j + 1].min <= xPrime[j + 1].val.v
        /\ xPrime[j + 1].val.v <= xPrime[j + 1].max

\* Every variable of the point has max > min
RangesProper == \A i \in 1..Len(x) : x[i].max > x[i].min

\* C31: Propose copies x into xPrime and then changes at most the variable at
\* index j = floor(u * n): once it has returned every other variable of xPrime
\* equals that of x, the changed value lies in [min, max], x is never modified,
\* and whenever max > min the two wrap loops terminate, so the call returns.
C31_ProposeMovesOneAndWraps ==
    /\ [](ppc = "done" => OthersCopied /\ MovedInRange)
    /\ [][x' = x]_vars
    /\ ((ppc = "call" /\ RangesProper) ~> ppc = "done")

\* GetSnapshot has a reason to return null: no workspace, an empty snapshot
\* name, or a named set that is absent or empty
SnapshotUnavailable ==
    \/ fRefWS = 0
    \/ fSnapshotName = ""
    \/ ~workspaces[fRefWS].sets[fSnapshotName].def
    \/ workspaces[fRefWS].sets[fSnapshotName].vars = {}

\* C32: GetSnapshot is read-only with respect to the workspace. When it
\* returns, every workspace variable of the snapshot set has the value it had
\* before the call and the returned set carries the snapshot values of these
\* variables; with no workspace, an empty snapshot name or an absent or empty
\* named set it returns null and leaves the workspaces as they were.
C32_GetSnapshotReadOnly ==
    [][lastOp'.op = "GetSnapshot" =>
         IF SnapshotUnavailable
         THEN modelSnapshot'.null /\ workspaces' = workspaces
         ELSE /\ ~modelSnapshot'.null
              /\ modelSnapshot'.vars = workspaces[fRefWS].sets[fSnapshotName].vars
              /\ \A v \in workspaces[fRefWS].sets[fSnapshotName].vars :
                    /\ workspaces'[fRefWS].vals[v] = workspaces[fRefWS].vals[v]
                    /\ modelSnapshot'.vals[v] = workspaces[fRefWS].snaps[fSnapshotName].vals[v]]_vars

\* GetSnapshot has returned a set in which a variable carries a snapshot value
\* that is not the value the workspace holds
C32_Witness ==
    /\ lastOp.op = "GetSnapshot"
    /\ ~modelSnapshot.null
    /\ \E v \in modelSnapshot.vars : modelSnapshot.vals[v] # workspaces[fRefWS].vals[v]

\* C33: SetWS binds the workspace reference and the workspace name only when
\* no workspace is referenced (the first call); every later call merges the
\* given workspace into the referenced one and leaves the reference and the
\* stored name as they were; after either call the global kill level of the
\* message service is what it was before the call.
C33_SetWSBindsOnce ==
    [][lastOp'.op = "SetWS" =>
         /\ globalKillBelow' = globalKillBelow
         /\ IF fRefWS = 0
            THEN /\ fRefWS' = lastOp'.ws
                 /\ fWSName' = WsName(lastOp'.ws)
                 /\ lastMerge' = lastMerge
            ELSE /\ fRefWS' = fRefWS
                 /\ fWSName' = fWSName
                 /\ lastMerge' = [into |-> fRefWS, from |-> lastOp'.ws, level |-> ERROR]]_vars

\* A later SetWS has merged another workspace into the referenced one while
\* the kill level was not ERROR before the call
C33_Witness ==
    /\ lastOp.op = "SetWS"
    /\ lastMerge.into = fRefWS
    /\ lastMerge.from = lastOp.ws
    /\ lastMerge.from # lastMerge.into
    /\ fWSName = WsName(lastMerge.into)
    /\ globalKillBelow # ERROR

PassAborts == pc = "running" /\ pc' = "idle" /\ nPasses' = nPasses
SomeTaskFailed == \E k \in 1..Len(tstate) : tstate[k] = "failed"

\* C17: a pass in which a callable threw never completes: from the throw on,
\* and through the step in which the exception leaves Run, the has-run flag, the
\* readiness flags, the results, the booked actions and the list of readiness
\* flags are what they were, so the has-run flag is still false if no pass
\* completed before and every booked handle is still not ready.
C17_FailureAbortsPass ==
    [][ /\ (pc = "running" /\ SomeTaskFailed) =>
              /\ pc' = "idle" => PassAborts
              /\ nPasses' = nPasses
              /\ fHasRunAtLeastOnce' = fHasRunAtLeastOnce
              /\ ready' = ready /\ value' = value
              /\ fBookedActions' = fBookedActions
              /\ fResProxyReadiness' = fResProxyReadiness
        /\ PassAborts =>
              /\ SomeTaskFailed
              /\ nPasses = 0 => ~fHasRunAtLeastOnce'
              /\ \A h \in BookedHandles' : ~ready'[h]
              /\ BookedHandles' = BookedHandles
      ]_vars

\* C17 witness: the handle was observed again after a pass had failed, and the
\* pass that drove failed again; the handle is still not ready and no pass has
\* completed
C17_Witness ==
    /\ pc = "idle" /\ nAborts = MaxAborts /\ nPasses = 0
    /\ printed.by = "error"
    /\ ~fHasRunAtLeastOnce
    /\ BookedHandles # {} /\ \A h \in BookedHandles : ~ready[h]

\* What goes on whichever filters are booked
Common ==
    \/ \E n \in PoolModes \ {0} : EnableImplicitMT(n)
    \/ DisableImplicitMT
    \/ \E prev \in 0..MaxFilters : BookAction(prev)
    \/ \E h \in 1..MaxActions : ObserveReady(h)
    \/ \E h \in 1..MaxActions : ObserveUnready(h)
    \/ Report
    \/ \E t \in Threads, k \in 1..MaxRows : TaskEnter(t, k)
    \/ \E w \in Workers : ProcessRow(w)
    \/ \E w \in Workers : Crash(w)
    \/ FinishRun

\* Pipelines whose callables do not fail
Next ==
    \/ Common
    \/ \E prev \in 0..MaxFilters, sh \in FilterShapes : BookFilter(prev, sh.pred, sh.name)

\* A root constructed with implicit MT off and left so: temporary branches are
\* booked too, and a second thread may observe a handle while Run executes
InitSeq == Init /\ mode = 0
NextSeq ==
    \/ \E prev \in 0..MaxFilters, sh \in FilterShapes : BookFilter(prev, sh.pred, sh.name)
    \/ \E prev \in 0..MaxFilters : BookAction(prev)
    \/ \E name \in TmpNames, expr \in TmpExprs : BookBranch(name, expr)
    \/ \E h \in 1..MaxActions : ObserveReady(h)
    \/ \E h \in 1..MaxActions : ObserveUnready(h)
    \/ \E h \in 1..MaxActions : ObserveDuringRun(h)
    \/ Report
    \/ \E w \in Workers : ProcessRow(w)
    \/ FinishRun

\* A root constructed with implicit MT on and a pool of MaxPool threads, over a
\* tree of MaxRows entries: take actions are booked on the root and served by
\* parallel passes
InitDet == Init /\ mode = MaxPool /\ nEntries = MaxRows
NextDet ==
    \/ BookAction(0)
    \/ \E h \in 1..MaxActions : ObserveReady(h)
    \/ \E h \in 1..MaxActions : ObserveUnready(h)
    \/ \E t \in Threads, k \in 1..MaxRows : TaskEnter(t, k)
    \/ \E w \in Workers : ProcessRow(w)
    \/ FinishRun

\* Actions booked on the root and observed, with the pool threads and the
\* thread that called Run scheduled fairly: a thread that can enter the
\* callable, process its next row or run the epilogue of Run eventually does
NextLive ==
    \/ \E n \in PoolModes \ {0} : EnableImplicitMT(n)
    \/ \E prev \in 0..MaxFilters : BookAction(prev)
    \/ \E h \in 1..MaxActions : ObserveUnready(h)
    \/ \E t \in Threads, k \in 1..MaxRows : TaskEnter(t, k)
    \/ \E w \in Workers : ProcessRow(w)
    \/ \E w \in Workers : Crash(w)
    \/ FinishRun
Fairness ==
    /\ WF_vars(\E t \in Threads, k \in 1..MaxRows : TaskEnter(t, k))
    /\ \A w \in Workers : WF_vars(ProcessRow(w))
    /\ WF_vars(FinishRun)

\* Pipelines with a callable that fails on some entry
NextFail ==
    \/ Common
    \/ \E prev \in 0..MaxFilters, sh \in FailShapes : BookFilter(prev, sh.pred, sh.name)
    \/ AbortRun

Spec == Init /\ [][Next]_vars
SpecFail == Init /\ [][NextFail]_vars
SpecSeq == InitSeq /\ [][NextSeq]_vars
SpecPick == InitPick /\ [][Pick]_vars
SpecDet == InitDet /\ [][NextDet]_vars
SpecLive == Init /\ [][NextLive]_vars /\ Fairness
SpecPropose == InitPropose /\ [][Propose]_vars /\ WF_vars(Propose)
SpecConfig == InitConfig /\ [][Config]_vars
====
